---------------------------- MODULE Spec2Model ----------------------------
(***************************************************************************)
(* Model of spider.py, the pub.dev version scanner.                        *)
(*                                                                         *)
(* Python values are tagged records: [t |-> "None"], [t |-> "str", ...],   *)
(* [t |-> "list", v |-> <<...>>], so that values of different Python types *)
(* can be compared.  A Python str that the code takes apart (strip) is a   *)
(* sequence of one-character strings.  A Python dict that the code         *)
(* iterates is a sequence of [key, value] pairs in insertion order.        *)
(***************************************************************************)
EXTENDS Integers, Sequences, FiniteSets, TLC

\* ------------------------------------------------------------------------
\* Bounds of the model
\* ------------------------------------------------------------------------

\* data rows of the input sheet (spider.py reads any number of rows)
MaxRows == 2

\* version entries in one registry payload of the selector specification
MaxVersions == 2

\* packages beyond the size of the worker pool in the pool specification
MaxExtra == 1

\* ------------------------------------------------------------------------
\* Python values
\* ------------------------------------------------------------------------

None == [t |-> "None"]

\* the key is not in the dict (dict.get then yields its default)
Absent == [t |-> "absent"]

PyList(s) == [t |-> "list", v |-> s]

\* a function raised; the exception classes are not told apart
Raised == [t |-> "raised"]

\* ------------------------------------------------------------------------
\* read_pubdev_packages
\* ------------------------------------------------------------------------

Whitespace == {" "}

RECURSIVE lstrip(_)
lstrip(s) ==
    IF s # <<>> /\ Head(s) \in Whitespace THEN lstrip(Tail(s)) ELSE s

RECURSIVE rstrip(_)
rstrip(s) ==
    IF s # <<>> /\ s[Len(s)] \in Whitespace
    THEN rstrip(SubSeq(s, 1, Len(s) - 1))
    ELSE s

\* str.strip()
strip(s) == rstrip(lstrip(s))

\* a cell of the first column: None (empty) or a str
StrCell(s) == [t |-> "str", s |-> s]

\* Python truth value of a cell: None and '' are false
CellTruthy(c) == c.t = "str" /\ c.s # <<>>

\* the cells the input sheets are drawn from: an empty cell, "a", " a"
\* (which strips to "a"), "b" and the whitespace-only cell " ".  Cells
\* that hold a number (which str() would render) are not drawn.
Cells ==
    { None, StrCell(<<"a">>), StrCell(<<" ", "a">>), StrCell(<<"b">>),
      StrCell(<<" ">>) }

\* the first column of the data rows (the header row is already skipped)
Sheets == UNION { [1..n -> Cells] : n \in 0..MaxRows }

RECURSIVE read_pubdev_packages(_)
read_pubdev_packages(rows) ==
    IF rows = <<>> THEN <<>>
    ELSE IF CellTruthy(Head(rows))
         THEN <<strip(Head(rows).s)>> \o read_pubdev_packages(Tail(rows))
         ELSE read_pubdev_packages(Tail(rows))

\* ------------------------------------------------------------------------
\* Publish timestamps
\*
\* An ISO-8601 string "YYYY-MM-DDThh:00:00" + tail is [k |-> "iso",
\* d |-> <<Y, M, D, h>>, tail |-> ...]; the tail is the fraction and the
\* UTC offset as written.  Two more strings: "" and one str that
\* datetime.fromisoformat rejects.
\* ------------------------------------------------------------------------

Iso(d, tail) == [k |-> "iso", d |-> d, tail |-> tail]

EmptyStr == [k |-> "empty"]

JunkStr == [k |-> "junk"]

\* the tails in the order of Python's str comparison: '' is a prefix of
\* every str, and '+' (43) < '-' (45) < '.' (46) < 'Z' (90)
TailRank(tail) ==
    CASE tail = "" -> 0
      [] tail = "+01:00" -> 1
      [] tail = "-01:00" -> 2
      [] tail = ".500Z" -> 3
      [] tail = "Z" -> 4

\* whether the tail states a UTC offset; without one the datetime is naive
HasOffset(tail) == tail # ""

\* the UTC offset of a tail in hours.  The code rewrites 'Z' to '+00:00'
\* before it parses.
TailOffset(tail) ==
    CASE tail = "" -> 0
      [] tail = "+01:00" -> 1
      [] tail = "-01:00" -> -1
      [] tail = ".500Z" -> 0
      [] tail = "Z" -> 0

\* half seconds of the fraction
TailFraction(tail) == IF tail = ".500Z" THEN 1 ELSE 0

IsLeap(y) == y % 4 = 0 /\ (y % 100 # 0 \/ y % 400 = 0)

DaysBeforeYear(y) ==
    (y - 1) * 365 + ((y - 1) \div 4) - ((y - 1) \div 100) + ((y - 1) \div 400)

DaysBeforeMonth(y, m) ==
    <<0, 31, 59, 90, 120, 151, 181, 212, 243, 273, 304, 334>>[m]
    + (IF m > 2 /\ IsLeap(y) THEN 1 ELSE 0)

\* hours of the proleptic Gregorian calendar up to the wall-clock hour d
WallHours(d) ==
    (DaysBeforeYear(d[1]) + DaysBeforeMonth(d[1], d[2]) + (d[3] - 1)) * 24 + d[4]

\* an aware datetime: the UTC instant as <<hours, half seconds>>
Aware(h, f) == [aware |-> TRUE, h |-> h, f |-> f]

\* a naive datetime (no offset)
Naive(h, f) == [aware |-> FALSE, h |-> h, f |-> f]

\* datetime.fromisoformat(publish_time.replace('Z', '+00:00')); Raised
\* when the str is not ISO-8601
fromisoformat(ts) ==
    IF ts.k # "iso" THEN Raised
    ELSE IF ~HasOffset(ts.tail)
         THEN Naive(WallHours(ts.d), TailFraction(ts.tail))
         ELSE Aware(WallHours(ts.d) - TailOffset(ts.tail), TailFraction(ts.tail))

\* a <= b on aware datetimes
DateLE(a, b) == a.h < b.h \/ (a.h = b.h /\ a.f <= b.f)

\* a < b on aware datetimes
DateLT(a, b) == a.h < b.h \/ (a.h = b.h /\ a.f < b.f)

year_2025_start == Aware(WallHours(<<2025, 1, 1, 0>>), 0)

year_2025_end == Aware(WallHours(<<2026, 1, 1, 0>>), 0)

\* InYear2025 with the end of the window taken in: `<=` for `<` at line 96
InYear2025Inclusive(publish_date) ==
    DateLE(year_2025_start, publish_date) /\ DateLE(publish_date, year_2025_end)

\* year_2025_start <= publish_date < year_2025_end, for an aware
\* publish_date (comparing a naive datetime with these raises TypeError)
InYear2025(publish_date) ==
    DateLE(year_2025_start, publish_date) /\ DateLT(publish_date, year_2025_end)

\* a < b on the raw timestamp strings (Python str comparison)
RECURSIVE TupleLess(_, _)
TupleLess(a, b) ==
    IF a = <<>> THEN FALSE
    ELSE Head(a) < Head(b) \/ (Head(a) = Head(b) /\ TupleLess(Tail(a), Tail(b)))

StrLess(a, b) ==
    TupleLess(a.d, b.d) \/ (a.d = b.d /\ TailRank(a.tail) < TailRank(b.tail))

\* ------------------------------------------------------------------------
\* Registry payloads and filter_versions_last_year
\* ------------------------------------------------------------------------

\* the JSON object of a package: whether it has keys other than 'versions'
\* (such as 'name'), and its 'versions' (Absent, None for null, or a list)
PackageData(name, versions) == [t |-> "dict", name |-> name, versions |-> versions]

\* Python truth value of what get_package_versions returned: None and the
\* empty dict {} are false
Truthy(package_data) ==
    package_data # None /\ (package_data.name \/ package_data.versions # Absent)

\* a pubspec object: its 'dependencies' is Absent, None (null, as an empty
\* "dependencies:" key of a pubspec.yaml is rendered) or a dict of n entries
Pubspec(dependencies) == [t |-> "dict", dependencies |-> dependencies]

DepDict(n) == [t |-> "dict", n |-> n]

\* one element of 'versions'
VersionData(version, published, pubspec) ==
    [version |-> version, published |-> published, pubspec |-> pubspec]

\* the outcome of one loop iteration that ends in `continue`
Skip == [t |-> "skip"]

\* One iteration of the loop over versions (lines 81-124): Skip, or the
\* dict appended to versions_info.  src is the position of version_data in
\* the payload; the code does not have it, it is kept to state the order of
\* the output.  'description' and 'author' (lines 103-110) are strings that
\* nothing below reads, and are left out; reading them raises exactly when
\* pubspec is not a dict.
ProcessEntry(version_data, src) ==
    LET publish_time ==
            IF version_data.published = Absent THEN EmptyStr
            ELSE version_data.published
        pubspec ==
            IF version_data.pubspec = Absent THEN Pubspec(Absent)
            ELSE version_data.pubspec
        dependencies ==
            IF pubspec.dependencies = Absent THEN DepDict(0)
            ELSE pubspec.dependencies
    IN  IF publish_time = EmptyStr THEN Skip
        ELSE IF fromisoformat(publish_time) = Raised THEN Skip
        ELSE IF ~fromisoformat(publish_time).aware THEN Skip
        ELSE IF ~InYear2025(fromisoformat(publish_time)) THEN Skip
        ELSE IF pubspec = None THEN Skip
        ELSE IF dependencies = None THEN Skip
        ELSE [version |-> version_data.version,
              publish_time |-> publish_time,
              dependencies |-> dependencies.n,
              src |-> src]

\* InsertDesc of a sort that is not stable: x goes before the elements
\* whose key equals its own
InsertDescUnstable(sorted, x) ==
    LET before == { i \in 1..Len(sorted) :
                      StrLess(x.publish_time, sorted[i].publish_time) }
        k == Cardinality(before)
    IN  SubSeq(sorted, 1, k) \o <<x>> \o SubSeq(sorted, k + 1, Len(sorted))

\* list.sort(key=publish_time, reverse=True) is stable: x goes after every
\* element whose key is not smaller than its own
InsertDesc(sorted, x) ==
    LET before == { i \in 1..Len(sorted) :
                      ~StrLess(sorted[i].publish_time, x.publish_time) }
        k == Cardinality(before)
    IN  SubSeq(sorted, 1, k) \o <<x>> \o SubSeq(sorted, k + 1, Len(sorted))

RECURSIVE SortDescFrom(_, _)
SortDescFrom(sorted, rest) ==
    IF rest = <<>> THEN sorted
    ELSE SortDescFrom(InsertDesc(sorted, Head(rest)), Tail(rest))

\* versions_info.sort(key=lambda x: x.get('publish_time', ''), reverse=True)
SortDesc(infos) == SortDescFrom(<<>>, infos)

\* versions_info after the loop has run over versions[i..]
RECURSIVE LoopFrom(_, _, _)
LoopFrom(versions, i, infos) ==
    IF i > Len(versions) THEN infos
    ELSE LoopFrom(versions, i + 1,
                  IF ProcessEntry(versions[i], i) = Skip THEN infos
                  ELSE Append(infos, ProcessEntry(versions[i], i)))

\* the early return of line 70
NoVersions(package_data) ==
    ~Truthy(package_data) \/ package_data.versions = Absent

\* The value filter_versions_last_year returns, or Raised: iterating over
\* "versions": null raises TypeError outside the per-entry try.
filter_versions_last_year(package_data) ==
    IF NoVersions(package_data) THEN PyList(<<>>)
    ELSE IF package_data.versions = None THEN Raised
    ELSE PyList(SortDesc(LoopFrom(package_data.versions.v, 1, <<>>)))

\* ------------------------------------------------------------------------
\* State
\* ------------------------------------------------------------------------

VARIABLES
    \* main(): the first column of the input sheet, the list read from it,
    \* the position in main, and how many tasks are submitted to the pool
    rows, packages, mainpc, submitted,
    \* one scan_single_package task per element of packages
    task,
    \* threading.Lock: the task that holds it, 0 when free
    lock,
    \* progress['completed'] and progress['total']
    progress,
    \* the counter values of the progress lines, in the order printed
    log,
    \* the results dict as [key, value] pairs in insertion order, and the
    \* futures as_completed has yielded
    results, collected,
    \* the rows of the two sheets after their headers
    detail, summary,
    \* filter_versions_last_year run on its own: argument, position, loop
    \* index, the list being built and the value returned
    package_data, fpc, fi, versions_info, fret,
    \* the thread pool on its own: each work item's state and the number
    \* of requests sent for it
    pool, requests

scanVars ==
    <<rows, packages, mainpc, submitted, task, lock, progress, log, results,
      collected, detail, summary>>

filterVars == <<package_data, fpc, fi, versions_info, fret>>

poolVars == <<pool, requests>>

vars == <<scanVars, filterVars, poolVars>>

\* the scan is not running (the other specifications)
ScanIdle ==
    /\ rows = <<>> /\ packages = <<>> /\ mainpc = "off" /\ submitted = 0
    /\ task = <<>> /\ lock = 0 /\ progress = [completed |-> 0, total |-> 0]
    /\ log = <<>> /\ results = <<>> /\ collected = {}
    /\ detail = <<>> /\ summary = <<>>

FilterIdle ==
    /\ package_data = None /\ fpc = "off" /\ fi = 0
    /\ versions_info = <<>> /\ fret = None

PoolIdle == pool = <<>> /\ requests = <<>>

\* ------------------------------------------------------------------------
\* filter_versions_last_year, step by step
\* ------------------------------------------------------------------------

\* wall-clock hours around the two ends of the year window
LastHour2024 == <<2024, 12, 31, 23>>

FirstHour2025 == <<2025, 1, 1, 0>>

LastHour2025 == <<2025, 12, 31, 23>>

FirstHour2026 == <<2026, 1, 1, 0>>

\* the values of 'published' the payloads are drawn from
Published ==
    { Absent, EmptyStr, JunkStr,
      Iso(LastHour2024, "Z"), Iso(FirstHour2025, "Z"),
      Iso(LastHour2025, "Z"), Iso(LastHour2025, ".500Z"),
      Iso(FirstHour2026, "Z"),
      Iso(FirstHour2025, "+01:00"), Iso(FirstHour2026, "+01:00"),
      Iso(LastHour2024, "-01:00"),
      Iso(LastHour2025, "") }

GoodPubspec == Pubspec(DepDict(1))

\* the version entries the payloads are drawn from
Entries ==
    { VersionData(v, p, GoodPubspec) : v \in {"1.0.0", "2.0.0"}, p \in Published }
    \cup { VersionData("1.0.0", Iso(LastHour2025, "Z"), ps) :
             ps \in {Absent, None, Pubspec(Absent), Pubspec(None)} }

VersionLists == UNION { [1..n -> Entries] : n \in 0..MaxVersions }

\* the arguments filter_versions_last_year is run on
FilterInputs ==
    { None, PackageData(FALSE, Absent), PackageData(TRUE, Absent),
      PackageData(TRUE, None) }
    \cup { PackageData(TRUE, PyList(vs)) : vs \in VersionLists }

InitFilter ==
    /\ package_data \in FilterInputs
    /\ fpc = "call" /\ fi = 0 /\ versions_info = <<>> /\ fret = None
    /\ ScanIdle /\ PoolIdle

\* lines 70-79: the early return, or the start of the loop (which raises
\* when 'versions' is not iterable)
FilterEnter ==
    /\ fpc = "call"
    /\ IF NoVersions(package_data)
       THEN fpc' = "returned" /\ fret' = PyList(<<>>) /\ fi' = fi
       ELSE IF package_data.versions = None
            THEN fpc' = "returned" /\ fret' = Raised /\ fi' = fi
            ELSE fpc' = "loop" /\ fi' = 1 /\ fret' = fret
    /\ UNCHANGED <<package_data, versions_info, scanVars, poolVars>>

\* lines 81-124: one iteration
FilterEntry ==
    /\ fpc = "loop" /\ fi <= Len(package_data.versions.v)
    /\ versions_info' =
          IF ProcessEntry(package_data.versions.v[fi], fi) = Skip
          THEN versions_info
          ELSE Append(versions_info, ProcessEntry(package_data.versions.v[fi], fi))
    /\ fi' = fi + 1
    /\ UNCHANGED <<package_data, fpc, fret, scanVars, poolVars>>

\* lines 126-128: sort and return
FilterSort ==
    /\ fpc = "loop" /\ fi > Len(package_data.versions.v)
    /\ versions_info' = SortDesc(versions_info)
    /\ fret' = PyList(versions_info')
    /\ fpc' = "returned"
    /\ UNCHANGED <<package_data, fi, scanVars, poolVars>>

NextFilter == FilterEnter \/ FilterEntry \/ FilterSort

SpecFilter == InitFilter /\ [][NextFilter]_vars

\* ------------------------------------------------------------------------
\* The scan: main() and scan_single_package
\* ------------------------------------------------------------------------

\* ThreadPoolExecutor(max_workers=15)
max_workers == 15

\* results[key] = value on a Python dict: a new key goes last, a key that
\* is already there keeps its place and takes the new value
DictSet(d, key, value) ==
    IF \E i \in 1..Len(d) : d[i].key = key
    THEN [i \in 1..Len(d) |->
            IF d[i].key = key THEN [key |-> key, value |-> value] ELSE d[i]]
    ELSE Append(d, [key |-> key, value |-> value])

DictKeys(d) == { d[i].key : i \in 1..Len(d) }

\* what the registry answers in the scan: get_package_versions returns
\* None (the request failed), {} , an object without 'versions', an object
\* with "versions": null, or an object with two versions of 2025
Responses ==
    { None,
      PackageData(FALSE, Absent),
      PackageData(TRUE, Absent),
      PackageData(TRUE, None),
      PackageData(TRUE, PyList(<<
          VersionData("1.0.0", Iso(FirstHour2025, "Z"), GoodPubspec),
          VersionData("2.0.0", Iso(LastHour2025, "Z"), GoodPubspec) >>)) }

\* a task before executor.submit
NewTask == [pc |-> "new", data |-> None, result |-> None, exc |-> FALSE]

Tasks == 1..Len(packages)

\* the tasks a worker thread is running
Running == { t \in Tasks : task[t].pc \in {"fetch", "ready", "locked"} }

\* a worker thread is free to take a work item
WorkerFree == Cardinality(Running) < max_workers

\* LockFree of a task that does not take the lock
LockIgnored == TRUE

\* `with lock:` can enter
LockFree == lock = 0

\* AllCollected of a loop that stops at the first future
AllCollectedEarly == collected # {} \/ Tasks = {}

\* the as_completed loop has yielded every future
AllCollected == collected = Tasks

Init ==
    /\ rows \in Sheets
    /\ packages = <<>> /\ mainpc = "read" /\ submitted = 0
    /\ task = <<>> /\ lock = 0 /\ progress = [completed |-> 0, total |-> 0]
    /\ log = <<>> /\ results = <<>> /\ collected = {}
    /\ detail = <<>> /\ summary = <<>>
    /\ FilterIdle /\ PoolIdle

\* lines 256-265
ReadPackages ==
    /\ mainpc = "read"
    /\ packages' = read_pubdev_packages(rows)
    /\ task' = [t \in 1..Len(packages') |-> NewTask]
    /\ progress' = [completed |-> 0, total |-> Len(packages')]
    /\ mainpc' = "submit"
    /\ UNCHANGED <<rows, submitted, lock, log, results, collected, detail,
                   summary, filterVars, poolVars>>

\* lines 270-273: executor.submit for the next package
Submit ==
    /\ mainpc = "submit" /\ submitted < Len(packages)
    /\ submitted' = submitted + 1
    /\ task' = [task EXCEPT ![submitted + 1].pc = "queued"]
    /\ UNCHANGED <<rows, packages, mainpc, lock, progress, log, results,
                   collected, detail, summary, filterVars, poolVars>>

\* line 276: every task is submitted, as_completed starts
BeginCollect ==
    /\ mainpc = "submit" /\ submitted = Len(packages)
    /\ mainpc' = "collect"
    /\ UNCHANGED <<rows, packages, submitted, task, lock, progress, log,
                   results, collected, detail, summary, filterVars, poolVars>>

\* a worker thread takes the oldest work item of the pool's queue
StartTask(t) ==
    /\ task[t].pc = "queued"
    /\ \A u \in 1..(t - 1) : task[u].pc # "queued"
    /\ WorkerFree
    /\ task' = [task EXCEPT ![t].pc = "fetch"]
    /\ UNCHANGED <<rows, packages, mainpc, submitted, lock, progress, log,
                   results, collected, detail, summary, filterVars, poolVars>>

\* lines 134-142 with the answer of the registry: result, or an exception
\* on its way to the handler of line 150
Fetch(t, response) ==
    /\ task[t].pc = "fetch"
    /\ task' = [task EXCEPT ![t] =
          IF Truthy(response)
          THEN IF filter_versions_last_year(response) = Raised
               THEN [pc |-> "ready", data |-> response, result |-> None,
                     exc |-> TRUE]
               ELSE [pc |-> "ready", data |-> response,
                     result |-> filter_versions_last_year(response),
                     exc |-> FALSE]
          ELSE [pc |-> "ready", data |-> response, result |-> None,
                exc |-> FALSE]]
    /\ UNCHANGED <<rows, packages, mainpc, submitted, lock, progress, log,
                   results, collected, detail, summary, filterVars, poolVars>>

\* lines 145-146 (151-152 in the handler): enter the lock and count
Acquire(t) ==
    /\ task[t].pc = "ready"
    /\ LockFree
    /\ lock' = t
    /\ progress' = [progress EXCEPT !.completed = @ + 1]
    /\ task' = [task EXCEPT ![t].pc = "locked"]
    /\ UNCHANGED <<rows, packages, mainpc, submitted, log, results,
                   collected, detail, summary, filterVars, poolVars>>

\* lines 147-149 (153-154): print the progress line, leave the lock and
\* return (package_name, result)
PrintLine(t) ==
    /\ task[t].pc = "locked"
    /\ log' = Append(log, progress.completed)
    /\ lock' = 0
    /\ task' = [task EXCEPT ![t].pc = "done"]
    /\ UNCHANGED <<rows, packages, mainpc, submitted, progress, results,
                   collected, detail, summary, filterVars, poolVars>>

\* Collect that stores only the outcomes that are not None
CollectSkipFailed(t) ==
    /\ mainpc = "collect"
    /\ t \notin collected /\ task[t].pc = "done"
    /\ results' = IF task[t].result = None THEN results
                  ELSE DictSet(results, packages[t], task[t].result)
    /\ collected' = collected \cup {t}
    /\ UNCHANGED <<rows, packages, mainpc, submitted, task, lock, progress,
                   log, detail, summary, filterVars, poolVars>>

\* Collect that leaves the loop at the first failed task, as an exception
\* that escapes the loop body would
CollectAbortOnFailure(t) ==
    /\ mainpc = "collect"
    /\ t \notin collected /\ task[t].pc = "done"
    /\ results' = DictSet(results, packages[t], task[t].result)
    /\ collected' = collected \cup {t}
    /\ mainpc' = IF task[t].result = None THEN "write" ELSE mainpc
    /\ UNCHANGED <<rows, packages, submitted, task, lock, progress,
                   log, detail, summary, filterVars, poolVars>>

\* lines 276-279: as_completed yields a finished future
Collect(t) ==
    /\ mainpc = "collect"
    /\ t \notin collected /\ task[t].pc = "done"
    /\ results' = DictSet(results, packages[t], task[t].result)
    /\ collected' = collected \cup {t}
    /\ UNCHANGED <<rows, packages, mainpc, submitted, task, lock, progress,
                   log, detail, summary, filterVars, poolVars>>

\* lines 276, 268: the loop ends and the with block waits for the pool
ExitPool ==
    /\ mainpc = "collect"
    /\ AllCollected
    /\ \A t \in Tasks : task[t].pc = "done"
    /\ mainpc' = "write"
    /\ UNCHANGED <<rows, packages, submitted, task, lock, progress, log,
                   results, collected, detail, summary, filterVars, poolVars>>

\* ------------------------------------------------------------------------
\* write_results_to_excel
\* ------------------------------------------------------------------------

\* a cell holding a str, and a cell holding a number
Text(s) == [t |-> "text", s |-> s]

Num(n) == [t |-> "num", n |-> n]

\* the literal of lines 172 and 206 ("lookup failed")
FailedMarker == Text("lookup failed")

\* the literal of line 174 ("no version of 2025 found")
NotFoundMarker == Text("no version of 2025 found")

\* the detail rows of one item of results (lines 171-184); the description
\* and author columns are left out with the fields they show
DetailRowsOf(package_name, versions) ==
    IF versions = None
    THEN << [package |-> package_name, version |-> FailedMarker,
             publish_time |-> Text(""), dependencies |-> Text("")] >>
    ELSE IF versions.v = <<>>
    THEN << [package |-> package_name, version |-> NotFoundMarker,
             publish_time |-> Text(""), dependencies |-> Text("")] >>
    ELSE [i \in 1..Len(versions.v) |->
            [package |-> package_name,
             version |-> Text(versions.v[i].version),
             publish_time |-> versions.v[i].publish_time,
             dependencies |-> Num(versions.v[i].dependencies)]]

\* lines 170-184: for package_name, versions in results.items()
RECURSIVE DetailRows(_)
DetailRows(d) ==
    IF d = <<>> THEN <<>>
    ELSE DetailRowsOf(Head(d).key, Head(d).value) \o DetailRows(Tail(d))

\* SummaryRowOf without the test for None of line 205: a failed package
\* shows as a count of 0
SummaryRowOfNoMarker(package_name, versions) ==
    [package |-> package_name,
     count |-> IF versions = None THEN Num(0) ELSE Num(Len(versions.v))]

\* lines 205-208
SummaryRowOf(package_name, versions) ==
    IF versions = None
    THEN [package |-> package_name, count |-> FailedMarker]
    ELSE [package |-> package_name, count |-> Num(Len(versions.v))]

\* lines 204-208: for package_name, versions in results.items()
SummaryRows(d) ==
    [i \in 1..Len(d) |-> SummaryRowOf(d[i].key, d[i].value)]

\* line 291: write_results_to_excel(results, output_file)
WriteResults ==
    /\ mainpc = "write"
    /\ detail' = DetailRows(results)
    /\ summary' = SummaryRows(results)
    /\ mainpc' = "done"
    /\ UNCHANGED <<rows, packages, submitted, task, lock, progress, log,
                   results, collected, filterVars, poolVars>>

Next ==
    \/ ReadPackages
    \/ Submit
    \/ BeginCollect
    \/ \E t \in Tasks : StartTask(t)
    \/ \E t \in Tasks : \E response \in Responses : Fetch(t, response)
    \/ \E t \in Tasks : Acquire(t)
    \/ \E t \in Tasks : PrintLine(t)
    \/ \E t \in Tasks : Collect(t)
    \/ ExitPool
    \/ WriteResults

Spec == Init /\ [][Next]_vars

\* ------------------------------------------------------------------------
\* The thread pool on its own: lists longer than the pool.  A work item is
\* queued, then fetching (a worker thread is inside requests.get), then
\* done; what the task does after the answer is in Spec.
\* ------------------------------------------------------------------------

\* the lengths of the package list
PoolSizes == 0..(max_workers + MaxExtra)

WorkItems == 1..Len(pool)

\* the work items whose request is in flight
InFlight == { t \in WorkItems : pool[t] = "fetching" }

\* PoolWorkerFree of a pool that starts a thread for every work item
PoolWorkerUnbounded == TRUE

\* a worker thread is free: the pool starts at most max_workers threads
PoolWorkerFree == Cardinality(InFlight) < max_workers

InitPool ==
    /\ \E n \in PoolSizes :
          /\ pool = [t \in 1..n |-> "queued"]
          /\ requests = [t \in 1..n |-> 0]
    /\ ScanIdle /\ FilterIdle

\* a worker thread takes the oldest work item and calls
\* get_package_versions, which sends the one request of line 60
PoolStart(t) ==
    /\ pool[t] = "queued"
    /\ \A u \in 1..(t - 1) : pool[u] # "queued"
    /\ PoolWorkerFree
    /\ pool' = [pool EXCEPT ![t] = "fetching"]
    /\ requests' = [requests EXCEPT ![t] = @ + 1]
    /\ UNCHANGED <<scanVars, filterVars>>

\* lines 61-65: the request is answered (ok) or fails; either way
\* get_package_versions returns and the task runs to its end
PoolFinish(t, ok) ==
    /\ pool[t] = "fetching"
    /\ pool' = [pool EXCEPT ![t] = "done"]
    /\ UNCHANGED <<requests, scanVars, filterVars>>

NextPool ==
    \/ \E t \in WorkItems : PoolStart(t)
    \/ \E t \in WorkItems : \E ok \in BOOLEAN : PoolFinish(t, ok)

SpecPool == InitPool /\ [][NextPool]_vars

\* ------------------------------------------------------------------------
\* Properties of the scan (Spec)
\* ------------------------------------------------------------------------

\* the scan coordinator has finished: the with block of line 268 is left
ScanFinished == mainpc \in {"write", "done"}

\* the first-column cells that are not empty
NonEmptyRows == { i \in 1..Len(rows) : rows[i] # None /\ rows[i].s # <<>> }

\* the identifiers of the non-empty rows
Identifiers == { strip(rows[i].s) : i \in NonEmptyRows }

\* C1 as stated: when the scan coordinator finishes, the result table has
\* as many entries as the sheet has non-empty first-column data rows.
C1_SizeIsRowCount ==
    ScanFinished => Len(results) = Cardinality(NonEmptyRows)

\* C1 as amended: when the scan coordinator finishes, the keys of the
\* result table are exactly the distinct identifiers read from the sheet,
\* each once, whatever fetches failed; rows with the same identifier share
\* one entry.
C1_OneEntryPerDistinctIdentifier ==
    ScanFinished =>
        /\ DictKeys(results) = Identifiers
        /\ Len(results) = Cardinality(Identifiers)
        /\ Len(results) <= Cardinality(NonEmptyRows)

\* two rows of the same identifier were scanned, one fetch failed, and the
\* table holds the one entry
C1_Witness ==
    /\ mainpc = "done"
    /\ Cardinality(NonEmptyRows) = 2 /\ Len(results) = 1
    /\ \E t \in Tasks : task[t].data = None

\* C2: the counter values of the progress lines are 1, 2, ... in the order
\* printed, with no gap and no repeat; every task that has counted has
\* counted once; and when the scan has finished there are `total` lines.
C2_ProgressLinesCountUp ==
    /\ \A i \in 1..Len(log) : log[i] = i
    /\ progress.completed =
          Cardinality({ t \in Tasks : task[t].pc \in {"locked", "done"} })
    /\ ScanFinished =>
          Len(log) = Len(packages) /\ progress.total = Len(packages)

\* two tasks have printed their lines, one from the handler of line 150,
\* one from the normal path
C2_Witness ==
    /\ Len(log) = 2
    /\ \E t, u \in Tasks :
          /\ task[t].pc = "done" /\ task[t].exc
          /\ task[u].pc = "done" /\ ~task[u].exc

\* C3 as stated: a task's outcome is None exactly when its fetch failed
\* (get_package_versions returned None); after a successful fetch it is
\* the list the selector yields, empty when the payload has no version
\* list.
C3_FailedIffFetchFailed ==
    \A t \in Tasks :
        task[t].pc \in {"ready", "locked", "done"} =>
            /\ task[t].result = None <=> task[t].data = None
            /\ (task[t].data # None /\ task[t].data.versions = Absent) =>
                   task[t].result = PyList(<<>>)

\* the first position of an identifier in the package list
FirstIndex(name) ==
    CHOOSE i \in 1..Len(packages) :
        packages[i] = name /\ \A j \in 1..(i - 1) : packages[j] # name

\* C4 as stated: the identifiers of the detail sheet are in the order of
\* the package list.
C4_DetailInInputOrder ==
    mainpc = "done" =>
        \A i, j \in 1..Len(detail) :
            i < j => FirstIndex(detail[i].package) <= FirstIndex(detail[j].package)

\* the outcome of a task as a function of the answer that task got, and
\* of nothing else: None when the fetch failed, the payload is {} or the
\* selector raised, else the selector's list
ExpectedOutcome(data) ==
    IF data = None \/ data = PackageData(FALSE, Absent) \/ data.versions = None
    THEN None
    ELSE IF data.versions = Absent THEN PyList(<<>>)
    ELSE PyList(SortDesc(LoopFrom(data.versions.v, 1, <<>>)))

\* C5: when the scan has finished every task has run to its end, and every
\* identifier has an entry whose value is the outcome of a task of that
\* identifier for the answer that task got, whatever happened to the
\* other tasks.
C5_FailureStaysLocal ==
    ScanFinished =>
        /\ \A t \in Tasks : task[t].pc = "done"
        /\ \A t \in Tasks : \E i \in 1..Len(results) :
              results[i].key = packages[t]
        /\ \A i \in 1..Len(results) : \E t \in Tasks :
              /\ packages[t] = results[i].key
              /\ results[i].value = ExpectedOutcome(task[t].data)

\* one task ended in the exception handler, the other identifier has its
\* two versions in the table
C5_Witness ==
    /\ mainpc = "done"
    /\ \E t, u \in Tasks : \E i, j \in 1..Len(results) :
          /\ task[t].exc /\ results[i].key = packages[t]
          /\ results[i].value = None
          /\ results[j].key = packages[u] /\ results[j].value # None
          /\ Len(results[j].value.v) = 2

\* C6: the report is written, or being written, only when every task has
\* run to its end and its outcome is in the result table.
C6_ReportAfterBarrier ==
    (mainpc \in {"write", "done"} \/ detail # <<>> \/ summary # <<>>) =>
        \A t \in Tasks :
            /\ task[t].pc = "done"
            /\ t \in collected
            /\ packages[t] \in DictKeys(results)

\* the writer is about to run on a table of two entries
C6_Witness == mainpc = "write" /\ Len(results) = 2 /\ Len(packages) = 2

\* C9 as stated: one summary row per entry of the table; the failure
\* marker for Failed, a "not found" marker for Empty, the count for Found.
C9_SummaryMarkers ==
    mainpc = "done" =>
        /\ Len(summary) = Len(results)
        /\ \A i \in 1..Len(results) :
              /\ summary[i].package = results[i].key
              /\ summary[i].count =
                    IF results[i].value = None THEN FailedMarker
                    ELSE IF results[i].value.v = <<>> THEN NotFoundMarker
                    ELSE Num(Len(results[i].value.v))

\* C9 as amended: one summary row per entry of the table; the failure
\* marker for Failed, and the number of version records otherwise, which
\* is the number 0 for Empty.
C9_SummaryCounts ==
    mainpc = "done" =>
        /\ Len(summary) = Len(results)
        /\ \A i \in 1..Len(results) :
              /\ summary[i].package = results[i].key
              /\ results[i].value = None => summary[i].count = FailedMarker
              /\ results[i].value # None =>
                    /\ summary[i].count.t = "num"
                    /\ summary[i].count.n = Len(results[i].value.v)
              /\ (results[i].value # None /\ results[i].value.v = <<>>) =>
                    summary[i].count = Num(0)

\* the summary of a table with an Empty and a Failed entry
C9_Witness ==
    /\ mainpc = "done"
    /\ \E i, j \in 1..Len(results) :
          /\ results[i].value = PyList(<<>>) /\ summary[i].count = Num(0)
          /\ results[j].value = None /\ summary[j].count = FailedMarker

\* ------------------------------------------------------------------------
\* Properties of filter_versions_last_year (SpecFilter)
\* ------------------------------------------------------------------------

\* the version entries of the argument
InputVersions == package_data.versions.v

\* the function has returned a list for a payload with a version list
Returned ==
    /\ fpc = "returned" /\ fret # Raised
    /\ package_data # None /\ package_data.versions \notin {Absent, None}

\* entry i of the payload is in the returned list
Included(i) == \E j \in 1..Len(fret.v) : fret.v[j].src = i

\* entry i has a publish instant: its timestamp parses and has an offset
HasInstant(i) ==
    /\ InputVersions[i].published \notin {Absent, EmptyStr, JunkStr}
    /\ fromisoformat(InputVersions[i].published).aware

\* 2025-01-01T00:00:00Z <= t < 2026-01-01T00:00:00Z for the instant t of
\* entry i, in hours since the start of the calendar
InWindow(i) ==
    LET t == fromisoformat(InputVersions[i].published)
    IN  /\ WallHours(<<2025, 1, 1, 0>>) <= t.h
        /\ t.h < WallHours(<<2026, 1, 1, 0>>)

\* the pubspec of entry i is an object, or absent, and so is its
\* 'dependencies': lines 103-113 read them without raising
FieldsReadable(i) ==
    InputVersions[i].pubspec \in
        {Absent, Pubspec(Absent)} \cup { Pubspec(DepDict(n)) : n \in 0..1 }

\* C7 as stated: an entry is in the returned list exactly when its publish
\* instant is in [2025-01-01T00:00:00Z, 2026-01-01T00:00:00Z); an entry
\* without a timestamp, or with one that does not parse, is not in it.
C7_IncludedIffInWindow ==
    Returned =>
        \A i \in 1..Len(InputVersions) :
            Included(i) <=> (HasInstant(i) /\ InWindow(i))

\* C7 as amended: an entry is in the returned list exactly when its
\* timestamp parses to an instant with a UTC offset that is in
\* [2025-01-01T00:00:00Z, 2026-01-01T00:00:00Z) and its pubspec and
\* dependencies can be read; an entry whose timestamp is missing, empty,
\* unparsable or without offset is never in it; and an entry is in it at
\* most once, with its own version and raw timestamp.
C7_IncludedIffInWindowAndReadable ==
    Returned =>
        /\ \A i \in 1..Len(InputVersions) :
              /\ Included(i) <=>
                    (HasInstant(i) /\ InWindow(i) /\ FieldsReadable(i))
              /\ ~HasInstant(i) => ~Included(i)
        /\ \A j \in 1..Len(fret.v) :
              /\ fret.v[j].src \in 1..Len(InputVersions)
              /\ fret.v[j].version = InputVersions[fret.v[j].src].version
              /\ fret.v[j].publish_time = InputVersions[fret.v[j].src].published
              /\ \A k \in 1..Len(fret.v) : fret.v[k].src = fret.v[j].src => k = j

\* the first instant of the window is kept and the first instant after it
\* is dropped, in one call
C7_Witness ==
    /\ Returned
    /\ \E i, j \in 1..Len(InputVersions) :
          /\ InputVersions[i].published = Iso(FirstHour2025, "Z") /\ Included(i)
          /\ InputVersions[j].published = Iso(FirstHour2026, "Z") /\ ~Included(j)

\* a <= b on the publish instants of two returned entries
NotLater(a, b) ==
    DateLE(fromisoformat(a.publish_time), fromisoformat(b.publish_time))

\* C8 as stated: the returned list is in descending order of publish
\* instant, the latest published entry first, and entries with the same
\* timestamp keep their order.
C8_SortedByInstant ==
    Returned =>
        \A j, k \in 1..Len(fret.v) :
            j < k =>
                /\ NotLater(fret.v[k], fret.v[j])
                /\ fret.v[j].publish_time = fret.v[k].publish_time =>
                      fret.v[j].src < fret.v[k].src

\* C8 as amended: the returned list is in descending order of the raw
\* timestamp strings, compared as strings, and entries with the same
\* string keep the order they have in the payload.
C8_SortedByRawString ==
    Returned =>
        \A j, k \in 1..Len(fret.v) :
            j < k =>
                /\ ~StrLess(fret.v[j].publish_time, fret.v[k].publish_time)
                /\ fret.v[j].publish_time = fret.v[k].publish_time =>
                      fret.v[j].src < fret.v[k].src

\* two entries are returned and the sort has moved the second entry of the
\* payload, whose timestamp string is the greater, to the front
C8_Witness ==
    /\ Returned /\ Len(fret.v) = 2
    /\ fret.v[1].src = 2
    /\ fret.v[1].publish_time # fret.v[2].publish_time

\* ------------------------------------------------------------------------
\* Properties of the thread pool (SpecPool)
\* ------------------------------------------------------------------------

\* C10: at most 15 requests are in flight at any time, whatever the length
\* of the package list; a work item that is queued has sent no request,
\* one that is fetching or done has sent exactly one.
C10_AtMostFifteenInFlight ==
    /\ Cardinality(InFlight) <= 15
    /\ \A t \in WorkItems :
          requests[t] = IF pool[t] = "queued" THEN 0 ELSE 1

\* fifteen requests are in flight and a sixteenth package waits
C10_Witness ==
    /\ Cardinality(InFlight) = 15
    /\ \E t \in WorkItems : pool[t] = "queued"

=============================================================================
